---------------------------- MODULE Spec2Model ----------------------------
(***************************************************************************)
(* Book catalogue browser: the filter engine (src/src/data/filters.py),    *)
(* the library kept in the session state, the result pager and the         *)
(* handlers that drive them (src/app.py).                                  *)
(*                                                                         *)
(* Text is a sequence of one-character strings.  An optional cell of the   *)
(* table (pandas NaN) is the empty tuple None, a present cell x is the     *)
(* one-element tuple Some(x).                                              *)
(***************************************************************************)
EXTENDS Integers, Sequences, FiniteSets, TLC

VARIABLES
    df,              \* the Book Table handed over by DataLoader.get_book_data
    initialized,     \* "initialized" in st.session_state
    library,         \* st.session_state.library: isbn -> status
    search_results,  \* st.session_state.search_results: rows, in order
    current_page,    \* st.session_state.current_page
    items_per_page,  \* st.session_state.items_per_page
    error,           \* what the last run reported: "" or the exception text
    shown,           \* the last run called display_search_results
    page_view,       \* the slice get_paginated_results returned in the last run
    lastOp           \* the handler the last run executed, with its inputs

vars == <<df, initialized, library, search_results, current_page,
          items_per_page, error, shown, page_view, lastOp>>

-----------------------------------------------------------------------------
(* Bounds of the model *)

MaxTitleLen == 3
MaxQueryLen == 2
MaxGenresLen == 3
MaxGenreQueryLen == 1
MaxPages == 2
MaxLibraryBooks == 2
MaxApiBooks == 3
MaxTotal == 25
MaxPageNo == 4
MaxItemsPerPage == 10
MaxSeparators == 1
MaxRating == 3

(* Program constants *)

DefaultItemsPerPage == 10
DefaultMaxPages == 1000
Isbn10Len == 10
Isbn13Len == 13

None == << >>
Some(x) == <<x>>

-----------------------------------------------------------------------------
(* Python str methods, on sequences of characters *)

Whitespace == {" "}

LowerChar(c) ==
    CASE c = "A" -> "a"
      [] c = "B" -> "b"
      [] c = "X" -> "x"
      [] OTHER -> c

Lower(s) == [i \in 1..Len(s) |-> LowerChar(s[i])]

RECURSIVE LStrip(_, _)
LStrip(s, chars) ==
    IF s # << >> /\ Head(s) \in chars THEN LStrip(Tail(s), chars) ELSE s

RECURSIVE RStrip(_, _)
RStrip(s, chars) ==
    IF s # << >> /\ s[Len(s)] \in chars
    THEN RStrip(SubSeq(s, 1, Len(s) - 1), chars)
    ELSE s

\* str.strip(chars): drop leading and trailing characters that are in chars
StripChars(s, chars) == RStrip(LStrip(s, chars), chars)

\* str.strip(): drop leading and trailing whitespace
Strip(s) == StripChars(s, Whitespace)

\* str.replace(c, ""): drop every occurrence of the character c
Replace(s, c) == SelectSeq(s, LAMBDA x : x # c)

\* the position of the first c in s, or 0
RECURSIVE FindFrom(_, _, _)
FindFrom(s, c, i) ==
    IF i > Len(s) THEN 0
    ELSE IF s[i] = c THEN i ELSE FindFrom(s, c, i + 1)

\* str.split(c): the pieces between the occurrences of c, never empty
RECURSIVE Split(_, _)
Split(s, c) ==
    LET k == FindFrom(s, c, 1)
    IN  IF k = 0 THEN <<s>>
        ELSE <<SubSeq(s, 1, k - 1)>> \o Split(SubSeq(s, k + 1, Len(s)), c)

IsAlnumChar(c) ==
    c \in {"0", "1", "2", "3", "4", "5", "6", "7", "8", "9",
           "a", "b", "x", "A", "B", "X"}

\* str.isalnum(): non-empty and every character a letter or a digit
IsAlnum(s) == s # << >> /\ \A i \in 1..Len(s) : IsAlnumChar(s[i])

\* re.search(pat, s) for a pattern of literal characters and ".": pandas
\* str.contains compiles its argument as a regular expression (regex=True)
RegexMatchesAt(pat, s, i) ==
    /\ i + Len(pat) - 1 <= Len(s)
    /\ \A k \in 1..Len(pat) : pat[k] = "." \/ pat[k] = s[i + k - 1]

RegexSearch(pat, s) == \E i \in 1..(Len(s) + 1) : RegexMatchesAt(pat, s, i)

-----------------------------------------------------------------------------
(* What a call gives back: the rows it returns, or the ValueError it raises *)

Ok(rows) == [raised |-> FALSE, rows |-> rows, msg |-> ""]
Raise(msg) == [raised |-> TRUE, rows |-> << >>, msg |-> msg]

-----------------------------------------------------------------------------
(* DataFilter: unfiltered_data[mask] is SelectSeq(unfiltered_data, Mask), the *)
(* rows that satisfy the mask in the order of the table                      *)

\* title_query.lower().strip()
NormalizeQuery(q) == Strip(Lower(q))

\* not title_query.strip()
IsBlank(q) == Strip(q) = << >>

\* the boolean mask of filter_by_title / filter_by_author on one cell
TextMask(cell, query, exact_match) ==
    IF cell = None THEN FALSE
    ELSE IF exact_match THEN Lower(cell[1]) = query
         ELSE RegexSearch(query, Lower(cell[1]))

filter_by_title(unfiltered_data, title_query, exact_match) ==
    IF IsBlank(title_query)
    THEN Raise("Title query must be a non-empty string")
    ELSE LET query == NormalizeQuery(title_query)
             Mask(row) == TextMask(row.title, query, exact_match)
         IN  Ok(SelectSeq(unfiltered_data, Mask))

filter_by_author(unfiltered_data, author_query, exact_match) ==
    IF IsBlank(author_query)
    THEN Raise("Author query must be a non-empty string")
    ELSE LET query == NormalizeQuery(author_query)
             Mask(row) == TextMask(row.author, query, exact_match)
         IN  Ok(SelectSeq(unfiltered_data, Mask))

\* a variant with the comparison turned around
RatingMaskInverted(cell, minimum_rating) ==
    cell # None /\ cell[1] <= minimum_rating

\* ratings are counted in half stars, the step of the slider
RatingMask(cell, minimum_rating) ==
    cell # None /\ cell[1] >= minimum_rating

filter_by_minimum_rating(unfiltered_data, minimum_rating) ==
    LET Mask(row) == RatingMask(row.rating, minimum_rating)
    IN  Ok(SelectSeq(unfiltered_data, Mask))

\* a variant that keeps the case of the pieces
GenresListCaseSensitive(genres_str) ==
    LET pieces == Split(StripChars(genres_str, {"[", "]"}), ",")
    IN  [i \in 1..Len(pieces) |-> StripChars(Strip(pieces[i]), {"\"", "'"})]

\* genres_str.strip("[]").split(","), each piece .strip().strip('"\'').lower()
GenresList(genres_str) ==
    LET pieces == Split(StripChars(genres_str, {"[", "]"}), ",")
    IN  [i \in 1..Len(pieces) |->
            Lower(StripChars(Strip(pieces[i]), {"\"", "'"}))]

\* check_genre: a cell is NaN, a string, or a value that is no string, on
\* which .strip raises and the except clause answers False
check_genre(cell, genre) ==
    IF cell.kind = "nan" THEN FALSE
    ELSE IF cell.kind = "str"
         THEN \E i \in 1..Len(GenresList(cell.s)) : GenresList(cell.s)[i] = genre
         ELSE FALSE

filter_by_genre(unfiltered_data, genre) ==
    IF genre = None \/ IsBlank(genre[1])
    THEN Raise("Genre must be a non-empty string")
    ELSE LET g == NormalizeQuery(genre[1])
             Mask(row) == check_genre(row.genres, g)
         IN  Ok(SelectSeq(unfiltered_data, Mask))

MinPagesMask(cell, minimum_pages) == cell # None /\ cell[1] >= minimum_pages

filter_by_minimum_pages(unfiltered_data, minimum_pages) ==
    IF minimum_pages < 0
    THEN Raise("Minimum pages must be a non-negative integer")
    ELSE LET Mask(row) == MinPagesMask(row.pages, minimum_pages)
         IN  Ok(SelectSeq(unfiltered_data, Mask))

MaxPagesMask(cell, maximum_pages) == cell # None /\ cell[1] <= maximum_pages

filter_by_maximum_pages(unfiltered_data, maximum_pages) ==
    IF maximum_pages < 0
    THEN Raise("Maximum pages must be a non-negative integer")
    ELSE LET Mask(row) == MaxPagesMask(row.pages, maximum_pages)
         IN  Ok(SelectSeq(unfiltered_data, Mask))

\* isbn_query.strip().replace("-", "").replace(" ", "")
CleanIsbnQuery(isbn_query) == Replace(Replace(Strip(isbn_query), "-"), " ")

\* a variant that forgets the spaces of the stored isbn
CleanIsbnHyphensOnly(isbn) == Replace(isbn, "-")

\* unfiltered_data["isbn"].str.replace("-", "").str.replace(" ", "")
CleanIsbn(isbn) == Replace(Replace(isbn, "-"), " ")

IsbnFormatOk(q) == IsAlnum(q) /\ (Len(q) = Isbn10Len \/ Len(q) = Isbn13Len)

filter_by_isbn(unfiltered_data, isbn_query) ==
    IF IsBlank(isbn_query)
    THEN Raise("ISBN query must be a non-empty string")
    ELSE LET q == CleanIsbnQuery(isbn_query)
         IN  IF ~IsbnFormatOk(q)
             THEN Raise("ISBN must be either 10 or 13 characters long")
             ELSE LET Mask(row) == CleanIsbn(row.isbn) = q
                  IN  Ok(SelectSeq(unfiltered_data, Mask))

-----------------------------------------------------------------------------
(* Result pager *)

Min(a, b) == IF a < b THEN a ELSE b
Max(a, b) == IF a > b THEN a ELSE b

\* a slice bound as Python reads it on a sequence of length n
SliceIndex(i, n) == IF i < 0 THEN Max(0, n + i) ELSE Min(i, n)

\* df.iloc[start:stop]
Iloc(s, start, stop) ==
    SubSeq(s, SliceIndex(start, Len(s)) + 1, SliceIndex(stop, Len(s)))

\* a variant that reads the page number as 0-based
get_paginated_results_zero_based(data, page, per_page) ==
    LET start_idx == page * per_page
        end_idx == start_idx + per_page
    IN  Iloc(data, start_idx, end_idx)

get_paginated_results(data, page, per_page) ==
    LET start_idx == (page - 1) * per_page
        end_idx == start_idx + per_page
    IN  Iloc(data, start_idx, end_idx)

\* math.ceil(total_items / items_per_page)
TotalPages(total_items, per_page) == (total_items + per_page - 1) \div per_page

\* display_search_results: the rows it lists (none under the warning)
DisplayedRows(results, page, per_page) ==
    IF results = << >> THEN << >>
    ELSE get_paginated_results(results, page, per_page)

\* display_search_results reaches display_pagination_controls
ControlsShown == shown /\ Len(search_results) > items_per_page

-----------------------------------------------------------------------------
(* The session state before and after initialize_session_state *)

Absent == <<"absent">>

WantToRead == "Want to Read"
Read == "Read"

NoOp == [op |-> "none"]

\* one run of the script that ends with the given state of the search tab
Render(results, page, err, isShown, op) ==
    /\ search_results' = results
    /\ current_page' = page
    /\ error' = err
    /\ shown' = isShown
    /\ page_view' = IF isShown
                    THEN DisplayedRows(results, page, items_per_page)
                    ELSE << >>
    /\ lastOp' = op

\* a variant that initialises on every run of the script
RunResetting ==
    /\ initialized' = TRUE
    /\ library' = << >>
    /\ items_per_page' = DefaultItemsPerPage
    /\ Render(<< >>, 1, "", FALSE, [op |-> "run"])
    /\ UNCHANGED df

\* main(): initialize_session_state() and nothing clicked (the page is
\* opened, or a text box, slider or check box changed)
Run ==
    /\ IF ~initialized
       THEN /\ initialized' = TRUE
            /\ library' = << >>
            /\ items_per_page' = DefaultItemsPerPage
            /\ Render(<< >>, 1, "", FALSE, [op |-> "run"])
       ELSE /\ UNCHANGED <<initialized, library, items_per_page>>
            /\ Render(search_results, current_page, "", FALSE, [op |-> "run"])
    /\ UNCHANGED df

-----------------------------------------------------------------------------
(* Library *)

IsbnsOf(table) == {table[i].isbn : i \in 1..Len(table)}

\* add_to_library
add_to_library(lib, isbn) ==
    [x \in DOMAIN lib \cup {isbn} |-> IF x = isbn THEN WantToRead ELSE lib[x]]

\* the rows display_library_section lists: df[df["isbn"].isin(library.keys())]
InLibraryView(lib, isbn) == isbn \in DOMAIN lib /\ isbn \in IsbnsOf(df)

\* a variant that sets the status without looking at the entry
mark_as_read_unchecked(lib, isbn) ==
    [x \in DOMAIN lib \cup {isbn} |-> IF x = isbn THEN Read ELSE lib[x]]

\* the "Mark as Read" branch of display_library_section for one book
mark_as_read(lib, isbn) ==
    IF InLibraryView(lib, isbn) /\ lib[isbn] = WantToRead
    THEN [lib EXCEPT ![isbn] = Read]
    ELSE lib

\* a variant that offers Remove only next to "Mark as Read"
remove_unread_only(lib, isbn) ==
    IF InLibraryView(lib, isbn) /\ lib[isbn] = WantToRead
    THEN [x \in DOMAIN lib \ {isbn} |-> lib[x]]
    ELSE lib

\* the "Remove" branch of display_library_section for one book
remove_from_library(lib, isbn) ==
    IF InLibraryView(lib, isbn)
    THEN [x \in DOMAIN lib \ {isbn} |-> lib[x]]
    ELSE lib

\* the callback and the rerun that follows it: nothing is clicked in the rerun
LibraryStep(lib, op) ==
    /\ initialized
    /\ library' = lib
    /\ Render(search_results, current_page, "", FALSE, op)
    /\ UNCHANGED <<df, initialized, items_per_page>>

Add(isbn) ==
    LibraryStep(add_to_library(library, isbn), [op |-> "add", isbn |-> isbn])

MarkRead(isbn) ==
    LibraryStep(mark_as_read(library, isbn), [op |-> "markRead", isbn |-> isbn])

Remove(isbn) ==
    LibraryStep(remove_from_library(library, isbn), [op |-> "remove", isbn |-> isbn])

\* a variant that renders "Add to Library" for every listed book
AddOfferedAlways(isbn) ==
    /\ shown
    /\ \E i \in 1..Len(page_view) : page_view[i].isbn = isbn

\* the buttons the last run rendered
AddOffered(isbn) ==
    /\ shown
    /\ \E i \in 1..Len(page_view) : page_view[i].isbn = isbn
    /\ isbn \notin DOMAIN library

MarkReadOffered(isbn) == InLibraryView(library, isbn) /\ library[isbn] = WantToRead

RemoveOffered(isbn) == InLibraryView(library, isbn)

\* a variant in which add_to_library runs for a book whether or not its
\* button was rendered
ClickAddUnguarded(isbn) == initialized /\ Add(isbn)

ClickAdd(isbn) == initialized /\ AddOffered(isbn) /\ Add(isbn)

ClickMarkRead(isbn) == initialized /\ MarkReadOffered(isbn) /\ MarkRead(isbn)

ClickRemove(isbn) == initialized /\ RemoveOffered(isbn) /\ Remove(isbn)

-----------------------------------------------------------------------------
(* Search tab *)

\* a variant that stores whatever the call produced
StoredAfterAlways(call) == call.rows

\* st.session_state.search_results = DataFilter.filter_by_...(...): the
\* assignment does not happen when the call raises
StoredAfter(call) == IF call.raised THEN search_results ELSE call.rows

\* a variant in which the filter narrows the table itself
SearchStepOverwritingTable(call, op) ==
    /\ initialized
    /\ Render(StoredAfter(call), current_page, call.msg, ~call.raised, op)
    /\ df' = StoredAfter(call)
    /\ UNCHANGED <<initialized, library, items_per_page>>

\* try: assign and display; except ValueError as e: st.error(str(e))
SearchStep(call, op) ==
    /\ initialized
    /\ Render(StoredAfter(call), current_page, call.msg, ~call.raised, op)
    /\ UNCHANGED <<df, initialized, library, items_per_page>>

\* the button is clicked while its text box is empty: the handler is skipped
SkippedStep(op) ==
    /\ initialized
    /\ Render(search_results, current_page, "", FALSE, op)
    /\ UNCHANGED <<df, initialized, library, items_per_page>>

SearchByTitle(title_query, title_exact) ==
    LET op == [op |-> "title", q |-> title_query, exact |-> title_exact]
    IN  IF title_query = << >> THEN SkippedStep(op)
        ELSE SearchStep(filter_by_title(df, title_query, title_exact), op)

SearchByAuthor(author_query, author_exact) ==
    LET op == [op |-> "author", q |-> author_query, exact |-> author_exact]
    IN  IF author_query = << >> THEN SkippedStep(op)
        ELSE SearchStep(filter_by_author(df, author_query, author_exact), op)

ApplyRatingFilter(min_rating) ==
    SearchStep(filter_by_minimum_rating(df, min_rating),
               [op |-> "rating", min |-> min_rating])

\* results = df; the minimum filter if min_pages > 0; the maximum filter if
\* max_pages > 0, on what the minimum filter returned
PageFilterCall(table, min_pages, max_pages) ==
    LET lower == IF min_pages > 0
                 THEN filter_by_minimum_pages(table, min_pages)
                 ELSE Ok(table)
    IN  IF lower.raised THEN lower
        ELSE IF max_pages > 0
             THEN filter_by_maximum_pages(lower.rows, max_pages)
             ELSE lower

ApplyPageFilter(min_pages, max_pages) ==
    SearchStep(PageFilterCall(df, min_pages, max_pages),
               [op |-> "pages", min |-> min_pages, max |-> max_pages])

\* the options of the genre select box: the pieces of every genres string,
\* stripped of blanks and quotes (not lower-cased)
GenreOptionsOf(cell) ==
    IF cell.kind # "str" THEN {}
    ELSE LET pieces == Split(StripChars(cell.s, {"[", "]"}), ",")
         IN  {StripChars(Strip(pieces[i]), {"\"", "'"}) : i \in 1..Len(pieces)}

AllGenres(table) == UNION {GenreOptionsOf(table[i].genres) : i \in 1..Len(table)}

\* st.selectbox: one of the options, None when there are none
GenreChoices(table) ==
    IF AllGenres(table) = {} THEN {None} ELSE {Some(g) : g \in AllGenres(table)}

ApplyGenreFilter(selected_genre) ==
    SearchStep(filter_by_genre(df, selected_genre),
               [op |-> "genre", g |-> selected_genre])

SearchByIsbn(isbn_query) ==
    LET op == [op |-> "isbn", q |-> isbn_query]
    IN  IF isbn_query = << >> THEN SkippedStep(op)
        ELSE SearchStep(filter_by_isbn(df, isbn_query), op)

ResetAllFilters == SearchStep(Ok(df), [op |-> "reset"])

\* display_pagination_controls.  The two handlers are modelled as written:
\* a click on a button the last run rendered runs its branch.  (Streamlit
\* reruns the script on the click, and the branch is reached only if the
\* enclosing search button reads True again in that rerun.)
PreviousOffered == ControlsShown /\ current_page # 1

NextOffered ==
    ControlsShown /\ current_page # TotalPages(Len(search_results), items_per_page)

\* current_page -= 1; st.rerun(): nothing is clicked in the rerun
Previous ==
    /\ initialized
    /\ PreviousOffered
    /\ Render(search_results, current_page - 1, "", FALSE, [op |-> "previous"])
    /\ UNCHANGED <<df, initialized, library, items_per_page>>

NextPage ==
    /\ initialized
    /\ NextOffered
    /\ Render(search_results, current_page + 1, "", FALSE, [op |-> "next"])
    /\ UNCHANGED <<df, initialized, library, items_per_page>>

-----------------------------------------------------------------------------
(* The session: a table of NBooks books and what the widgets can send *)

NBooks == 11
SliderMax == 10

Digits == <<"0", "1", "2", "3", "4", "5", "6", "7", "8", "9">>

IsbnOfBook(i) ==
    <<"0", "0", "0", "0", "0", "0", "0", "0",
      Digits[(i \div 10) + 1], Digits[(i % 10) + 1]>>

Book(i) ==
    [isbn   |-> IsbnOfBook(i),
     title  |-> IF i = 7 THEN None
                ELSE CASE i % 4 = 1 -> Some(<<"A", "b">>)
                       [] i % 4 = 2 -> Some(<<"b">>)
                       [] i % 4 = 3 -> Some(<<"a", " ", "b">>)
                       [] OTHER     -> Some(<<"B", "a">>),
     author |-> IF i % 2 = 0 THEN Some(<<"a">>) ELSE Some(<<"B", "a">>),
     rating |-> IF i = 5 THEN None ELSE Some(i % (SliderMax + 1)),
     pages  |-> IF i % 4 = 0 THEN None ELSE Some(i % 3),
     genres |-> CASE i % 3 = 0 -> [kind |-> "str",
                                   s |-> <<"[", "'", "a", "'", ",", " ", "'", "B", "'", "]">>]
                  [] i % 3 = 1 -> [kind |-> "str", s |-> <<"[", "'", "b", "'", "]">>]
                  [] OTHER     -> [kind |-> "nan"]]

Books == [i \in 1..NBooks |-> Book(i)]

UiTextQueries == {<< >>, <<" ">>, <<"B">>, <<"a", ".">>}

UiRatings == {0, 4, SliderMax}

UiMinPages == {0, 1}
UiMaxPages == {0, 1, DefaultMaxPages}

\* the books the user saves are among the first MaxLibraryBooks of the table
Savable == {IsbnOfBook(i) : i \in 1..MaxLibraryBooks}

UiIsbnQueries ==
    {<< >>, <<"1", "2">>, IsbnOfBook(1),
     <<" ", "0", "-", "0", "0", "0", "0", "0", "0", "0", "0", "2">>}

Init ==
    /\ df = Books
    /\ initialized = FALSE
    /\ library = Absent
    /\ search_results = Absent
    /\ current_page = Absent
    /\ items_per_page = Absent
    /\ error = ""
    /\ shown = FALSE
    /\ page_view = << >>
    /\ lastOp = NoOp

Next ==
    \/ Run
    \/ \E isbn \in Savable : ClickAdd(isbn)
    \/ \E isbn \in IsbnsOf(df) : ClickMarkRead(isbn)
    \/ \E isbn \in IsbnsOf(df) : ClickRemove(isbn)
    \/ \E q \in UiTextQueries, exact \in BOOLEAN : SearchByTitle(q, exact)
    \/ \E q \in UiTextQueries, exact \in BOOLEAN : SearchByAuthor(q, exact)
    \/ \E r \in UiRatings : ApplyRatingFilter(r)
    \/ \E m \in UiMinPages, n \in UiMaxPages : ApplyPageFilter(m, n)
    \/ \E g \in GenreChoices(df) : ApplyGenreFilter(g)
    \/ \E q \in UiIsbnQueries : SearchByIsbn(q)
    \/ ResetAllFilters
    \/ Previous
    \/ NextPage

Spec == Init /\ [][Next]_vars

-----------------------------------------------------------------------------
(* The library operations called on any book of the table *)

\* the session right after its first run, over the given table
Loaded(table) ==
    /\ df = table
    /\ initialized = TRUE
    /\ library = << >>
    /\ search_results = << >>
    /\ current_page = 1
    /\ items_per_page = DefaultItemsPerPage
    /\ error = ""
    /\ shown = FALSE
    /\ page_view = << >>
    /\ lastOp = [op |-> "run"]

InitLibrary == Loaded(SubSeq(Books, 1, MaxApiBooks))

NextLibrary ==
    \/ \E isbn \in IsbnsOf(df) : Add(isbn)
    \/ \E isbn \in IsbnsOf(df) : MarkRead(isbn)
    \/ \E isbn \in IsbnsOf(df) : Remove(isbn)

SpecLibrary == InitLibrary /\ [][NextLibrary]_vars

Present(isbn) == isbn \in DOMAIN library

\* C1: add(isbn) inserts an absent isbn with status Want to Read and leaves
\* the library as it is when isbn is present, so that a Read entry stays Read
C1_AddIdempotent ==
    [][\A isbn \in IsbnsOf(df) :
          lastOp' = [op |-> "add", isbn |-> isbn] =>
              IF Present(isbn)
              THEN library' = library
              ELSE library' = [x \in DOMAIN library \cup {isbn} |->
                                  IF x = isbn THEN WantToRead ELSE library[x]]]_vars

\* C2: every status in the library is Want to Read or Read; an entry that
\* stays changes only from Want to Read to Read; an entry appears only as
\* Want to Read and disappears only through remove
C2_StatusTransitions ==
    [][/\ \A x \in DOMAIN library' : library'[x] \in {WantToRead, Read}
       /\ initialized =>
             \A x \in IsbnsOf(df) :
                /\ (Present(x) /\ x \in DOMAIN library' /\ library'[x] # library[x])
                      => (library[x] = WantToRead /\ library'[x] = Read)
                /\ (~Present(x) /\ x \in DOMAIN library')
                      => library'[x] = WantToRead
                /\ (Present(x) /\ x \notin DOMAIN library')
                      => lastOp' = [op |-> "remove", isbn |-> x]]_vars

\* C2 witness: a saved book was marked as read through its button
C2_Witness ==
    /\ lastOp.op = "markRead"
    /\ lastOp.isbn \in DOMAIN library
    /\ library[lastOp.isbn] = Read

\* C3: markRead(isbn) turns Want to Read into Read, changes nothing when isbn
\* is absent or already Read, and never touches another entry
C3_MarkRead ==
    [][\A isbn \in IsbnsOf(df) :
          lastOp' = [op |-> "markRead", isbn |-> isbn] =>
              IF Present(isbn) /\ library[isbn] = WantToRead
              THEN /\ DOMAIN library' = DOMAIN library
                   /\ library'[isbn] = Read
                   /\ \A x \in DOMAIN library \ {isbn} : library'[x] = library[x]
              ELSE library' = library]_vars

\* C3 witness: markRead acted on one of two saved books
C3_Witness ==
    /\ lastOp.op = "markRead"
    /\ lastOp.isbn \in DOMAIN library
    /\ library[lastOp.isbn] = Read
    /\ \E x \in DOMAIN library : x # lastOp.isbn /\ library[x] = WantToRead

\* C4: remove(isbn) deletes the entry whatever its status, reports no error
\* and changes nothing when isbn is absent, and keeps the other entries
C4_Remove ==
    [][\A isbn \in IsbnsOf(df) :
          lastOp' = [op |-> "remove", isbn |-> isbn] =>
              /\ error' = ""
              /\ isbn \notin DOMAIN library'
              /\ DOMAIN library' = DOMAIN library \ {isbn}
              /\ \A x \in DOMAIN library' : library'[x] = library[x]]_vars

\* C4 witness: remove acted and another book is still saved as Read
C4_Witness ==
    /\ lastOp.op = "remove"
    /\ lastOp.isbn \notin DOMAIN library
    /\ \E x \in DOMAIN library : library[x] = Read

-----------------------------------------------------------------------------
(* The pager applied to result sets of every length, page and page size *)

InitPager ==
    \E total \in 0..MaxTotal, page \in 1..MaxPageNo, per_page \in 1..MaxItemsPerPage :
        /\ df = [i \in 1..total |-> Book(i)]
        /\ initialized = TRUE
        /\ library = << >>
        /\ search_results = df
        /\ current_page = page
        /\ items_per_page = per_page
        /\ error = ""
        /\ shown = FALSE
        /\ page_view = << >>
        /\ lastOp = [op |-> "run"]

Paginate ==
    /\ lastOp.op = "run"
    /\ page_view' = get_paginated_results(search_results, current_page, items_per_page)
    /\ lastOp' = [op |-> "paginate"]
    /\ UNCHANGED <<df, initialized, library, search_results, current_page,
                   items_per_page, error, shown>>

NextPager == Paginate

SpecPager == InitPager /\ [][NextPager]_vars

\* the pages 1..n of a result set, one after the other
RECURSIVE PagesUpTo(_, _, _)
PagesUpTo(results, n, per_page) ==
    IF n = 0 THEN << >>
    ELSE PagesUpTo(results, n - 1, per_page)
         \o get_paginated_results(results, n, per_page)

\* C5: paginate returns the records at positions (page-1)*itemsPerPage up to
\* but excluding min(total, page*itemsPerPage), in order: at most
\* itemsPerPage of them, none beyond the last page, and the pages
\* 1..ceil(total/itemsPerPage) together are the whole result set
C5_Paginate ==
    lastOp.op = "paginate" =>
        LET total == Len(search_results)
            lo == (current_page - 1) * items_per_page
            hi == Min(total, current_page * items_per_page)
            last == TotalPages(total, items_per_page)
        IN  /\ Len(page_view) = Max(0, hi - lo)
            /\ \A k \in 1..Len(page_view) : page_view[k] = search_results[lo + k]
            /\ Len(page_view) <= items_per_page
            /\ current_page > last => page_view = << >>
            /\ PagesUpTo(search_results, last, items_per_page) = search_results
            /\ (total = 25 /\ items_per_page = 10) =>
                  /\ last = 3
                  /\ Len(page_view) = CASE current_page = 1 -> 10
                                         [] current_page = 2 -> 10
                                         [] current_page = 3 -> 5
                                         [] OTHER -> 0

\* C5 witness: the third page of 25 results at 10 per page holds 5 records
C5_Witness ==
    /\ lastOp.op = "paginate"
    /\ Len(search_results) = 25
    /\ items_per_page = 10
    /\ current_page = 3
    /\ Len(page_view) = 5

-----------------------------------------------------------------------------
(* Failed filters in the session *)

\* C6: a filter call that raises leaves the stored result set as it was,
\* the page-count action included
C6_FailedFilterKeepsResults ==
    [][error' # "" => search_results' = search_results]_vars

\* C6 witness: a filter raised while a non-empty result set was stored
C6_Witness ==
    /\ error # ""
    /\ initialized
    /\ search_results # << >>

-----------------------------------------------------------------------------
(* filter_by_title on tables of two rows and every short title and query *)

TitleAlphabet == {"a", "A", "b", " ", "."}

\* the strings of at most n characters of an alphabet
StringsUpTo(alphabet, n) == UNION {[1..k -> alphabet] : k \in 0..n}

\* a row with the given cells and the other cells of Book(i)
RowWith(i, fields) ==
    [f \in DOMAIN Book(i) |-> IF f \in DOMAIN fields THEN fields[f] ELSE Book(i)[f]]

InitTitle ==
    \E cell \in {None} \cup {Some(t) : t \in StringsUpTo(TitleAlphabet, MaxTitleLen)} :
        Loaded(<<RowWith(1, [title |-> cell]), RowWith(2, [title |-> Some(<<"a">>)])>>)

CallFilterByTitle(title_query, exact_match) ==
    /\ lastOp.op = "run"
    /\ SearchStep(filter_by_title(df, title_query, exact_match),
                  [op |-> "title", q |-> title_query, exact |-> exact_match])

NextTitle ==
    \E q \in StringsUpTo(TitleAlphabet, MaxQueryLen), exact \in BOOLEAN :
        CallFilterByTitle(q, exact)

SpecTitle == InitTitle /\ [][NextTitle]_vars

\* trimmed and lower-cased
Normalized(t) == Strip(Lower(t))

\* a occurs in b as a run of consecutive characters
IsSubstring(a, b) ==
    \E i \in 0..(Len(b) - Len(a)) : \A k \in 1..Len(a) : b[i + k] = a[k]

TitleEquals(row, q) == row.title # None /\ Normalized(row.title[1]) = Normalized(q)

IndexSet(table, P(_)) == {i \in 1..Len(table) : P(table[i])}

\* C7: for a non-blank query, exact_match returns exactly the records whose
\* normalized title equals the normalized query; otherwise the result holds
\* all of those and only records whose normalized title contains the
\* normalized query literally; a blank or empty query raises
C7_TitleFilter ==
    lastOp.op = "title" =>
        IF IsBlank(lastOp.q)
        THEN error # ""
        ELSE /\ error = ""
             /\ LET Equal(row) == TitleEquals(row, lastOp.q)
                IN  IF lastOp.exact
                    THEN search_results = SelectSeq(df, Equal)
                    ELSE /\ \A i \in IndexSet(df, Equal) :
                               \E j \in 1..Len(search_results) : search_results[j] = df[i]
                         /\ \A j \in 1..Len(search_results) :
                               /\ search_results[j].title # None
                               /\ IsSubstring(Normalized(lastOp.q),
                                              Normalized(search_results[j].title[1]))

-----------------------------------------------------------------------------
(* filter_by_isbn on tables of two rows, with separators in either place *)

Insert(s, pos, c) == SubSeq(s, 1, pos) \o <<c>> \o SubSeq(s, pos + 1, Len(s))

\* s with up to n hyphens or spaces put in front, after the first character
\* or at the end
RECURSIVE Separated(_, _)
Separated(s, n) ==
    IF n = 0 THEN {s}
    ELSE LET fewer == Separated(s, n - 1)
         IN  fewer \cup UNION {{Insert(t, pos, c) :
                                    pos \in {0, Min(1, Len(t)), Len(t)},
                                    c \in {"-", " "}} : t \in fewer}

ShortIsbn == SubSeq(IsbnOfBook(1), 1, Isbn10Len - 1)
LongIsbn == <<"9", "7", "8">> \o IsbnOfBook(1)
OddIsbn == Insert(ShortIsbn, 1, ".")

StoredIsbns ==
    UNION {Separated(s, MaxSeparators) : s \in {IsbnOfBook(1), ShortIsbn, LongIsbn}}

IsbnQueries ==
    UNION {Separated(s, MaxSeparators) :
             s \in {IsbnOfBook(1), IsbnOfBook(2), ShortIsbn, LongIsbn, OddIsbn, << >>}}

InitIsbn ==
    \E first \in StoredIsbns, second \in {IsbnOfBook(2), Insert(IsbnOfBook(1), 5, "-")} :
        /\ first # second
        /\ Loaded(<<RowWith(1, [isbn |-> first]), RowWith(2, [isbn |-> second])>>)

CallFilterByIsbn(isbn_query) ==
    /\ lastOp.op = "run"
    /\ SearchStep(filter_by_isbn(df, isbn_query), [op |-> "isbn", q |-> isbn_query])

NextIsbn == \E q \in IsbnQueries : CallFilterByIsbn(q)

SpecIsbn == InitIsbn /\ [][NextIsbn]_vars

\* without its hyphens and spaces
Unseparated(s) == SelectSeq(s, LAMBDA c : c \notin {"-", " "})

IsIsbnShaped(s) ==
    /\ s # << >>
    /\ \A i \in 1..Len(s) : IsAlnumChar(s[i])
    /\ Len(s) \in {Isbn10Len, Isbn13Len}

\* no two rows of the table hold the same isbn, however it is separated
UniqueStrippedIsbns(table) ==
    \A i, j \in 1..Len(table) :
        Unseparated(table[i].isbn) = Unseparated(table[j].isbn) => i = j

\* C8 as claimed: on a table with unique isbns a query that equals a row's
\* isbn after stripping hyphens and spaces returns exactly that record, and
\* a query that strips to something empty, not alphanumeric or not 10 or 13
\* characters long raises
C8_IsbnAsClaimed ==
    (lastOp.op = "isbn" /\ UniqueStrippedIsbns(df)) =>
        /\ \A i \in 1..Len(df) :
              Unseparated(df[i].isbn) = Unseparated(lastOp.q)
                  => (error = "" /\ search_results = <<df[i]>>)
        /\ ~IsIsbnShaped(Unseparated(lastOp.q)) => error # ""

\* C8 amended: on a table whose isbns are unique after stripping, a query
\* that strips to 10 or 13 alphanumeric characters and equals a row's
\* stripped isbn returns exactly that record, whatever hyphens or spaces
\* either holds; a query that strips to something empty, not alphanumeric
\* or not 10 or 13 characters long raises
C8_IsbnFilter ==
    (lastOp.op = "isbn" /\ UniqueStrippedIsbns(df)) =>
        IF IsIsbnShaped(Unseparated(lastOp.q))
        THEN \A i \in 1..Len(df) :
                Unseparated(df[i].isbn) = Unseparated(lastOp.q)
                    => (error = "" /\ search_results = <<df[i]>>)
        ELSE error # ""

\* C8 witness: a hyphenated query found the one record stored with a space
C8_Witness ==
    /\ lastOp.op = "isbn"
    /\ UniqueStrippedIsbns(df)
    /\ "-" \in {lastOp.q[i] : i \in 1..Len(lastOp.q)}
    /\ Len(search_results) = 1
    /\ " " \in {search_results[1].isbn[i] : i \in 1..Len(search_results[1].isbn)}

-----------------------------------------------------------------------------
(* filter_by_genre on a row with any short genres cell, and a plain row *)

GenresAlphabet == {"[", "]", "'", ",", " ", "a", "A"}

GenreQueryAlphabet == {"a", "A", " ", "'"}

GenreCells ==
    {[kind |-> "nan"], [kind |-> "num"]}
        \cup {[kind |-> "str", s |-> t] : t \in StringsUpTo(GenresAlphabet, MaxGenresLen)}

InitGenre ==
    \E cell \in GenreCells :
        Loaded(<<RowWith(1, [genres |-> cell]), RowWith(3, << >>)>>)

CallFilterByGenre(genre) ==
    /\ lastOp.op = "run"
    /\ SearchStep(filter_by_genre(df, Some(genre)), [op |-> "genre", g |-> Some(genre)])

NextGenre ==
    \E g \in StringsUpTo(GenreQueryAlphabet, MaxGenreQueryLen) : CallFilterByGenre(g)

SpecGenre == InitGenre /\ [][NextGenre]_vars

\* the text between positions i and j of t is one entry of the list: it
\* has no comma in it and a comma or an end of the text on either side
IsEntry(t, i, j) ==
    /\ i = 1 \/ t[i - 1] = ","
    /\ j = Len(t) \/ t[j + 1] = ","
    /\ \A k \in i..j : t[k] # ","

\* trimmed, unquoted and lower-cased
NormalizedToken(t) == Lower(StripChars(Strip(t), {"'", "\""}))

\* the list within the brackets has an entry that normalizes to g
HasGenre(cell, g) ==
    /\ cell.kind = "str"
    /\ LET t == StripChars(cell.s, {"[", "]"})
       IN  \E i \in 1..(Len(t) + 1), j \in 0..Len(t) :
               /\ i <= j + 1
               /\ IsEntry(t, i, j)
               /\ NormalizedToken(SubSeq(t, i, j)) = g

\* C9: for a non-blank genre the filter does not raise and returns exactly
\* the records whose genres parse to a token set that holds the normalized
\* genre; a record with a missing or unparsable genres cell is never in it
C9_GenreFilter ==
    (lastOp.op = "genre" /\ ~IsBlank(lastOp.g[1])) =>
        /\ error = ""
        /\ LET Matches(row) == HasGenre(row.genres, Normalized(lastOp.g[1]))
           IN  search_results = SelectSeq(df, Matches)
        /\ \A j \in 1..Len(search_results) : search_results[j].genres.kind = "str"

\* C9 witness: an upper-case genre found the quoted entry of one row while
\* the row with the missing genres cell stayed out
C9_Witness ==
    /\ lastOp.op = "genre"
    /\ lastOp.g = Some(<<"A">>)
    /\ df[1].genres.kind = "str"
    /\ "'" \in {df[1].genres.s[i] : i \in 1..Len(df[1].genres.s)}
    /\ search_results = <<df[1], df[2]>>

\* C9 second witness state: a missing genres cell is skipped
C9_MissingSkipped ==
    /\ lastOp.op = "genre"
    /\ df[1].genres.kind = "nan"
    /\ search_results = <<df[2]>>

-----------------------------------------------------------------------------
(* The page-count action on tables of two rows *)

PageCells == {None} \cup {Some(p) : p \in 0..MaxPages}

InitPages ==
    \E first \in PageCells, second \in PageCells :
        Loaded(<<RowWith(1, [pages |-> first]), RowWith(2, [pages |-> second])>>)

CallPageFilter(min_pages, max_pages) ==
    /\ lastOp.op = "run"
    /\ ApplyPageFilter(min_pages, max_pages)

NextPages == \E m \in 0..MaxPages, n \in 0..MaxPages : CallPageFilter(m, n)

SpecPages == InitPages /\ [][NextPages]_vars

\* C10: the page-count action with minimum m and maximum M stores exactly
\* the records with a known page count p, m <= p <= M, in table order, for
\* every m and M including 0
C10_PageRange ==
    lastOp.op = "pages" =>
        LET InRange(row) == /\ row.pages # None
                            /\ lastOp.min <= row.pages[1]
                            /\ row.pages[1] <= lastOp.max
        IN  error = "" /\ search_results = SelectSeq(df, InRange)

-----------------------------------------------------------------------------
(* filter_by_minimum_rating applied to the table and again to its result *)

RatingCells == {None} \cup {Some(r) : r \in 0..MaxRating}

InitRating ==
    \E first \in RatingCells, second \in RatingCells, third \in RatingCells :
        Loaded(<<RowWith(1, [rating |-> first]), RowWith(2, [rating |-> second]),
                 RowWith(3, [rating |-> third])>>)

\* the filter on the whole table
CallFilterByRating(minimum_rating) ==
    /\ lastOp.op = "run"
    /\ SearchStep(filter_by_minimum_rating(df, minimum_rating),
                  [op |-> "rating", min |-> minimum_rating])

\* the filter on what the last call returned, with a higher minimum
NarrowByRating(minimum_rating) ==
    /\ lastOp.op = "rating"
    /\ minimum_rating > lastOp.min
    /\ SearchStep(filter_by_minimum_rating(search_results, minimum_rating),
                  [op |-> "narrow", first |-> lastOp.min, min |-> minimum_rating])

NextRating ==
    \/ \E r \in 0..MaxRating : CallFilterByRating(r)
    \/ \E r \in 0..MaxRating : NarrowByRating(r)

SpecRating == InitRating /\ [][NextRating]_vars

\* C11: the minimum-rating filter with r and then, on its result, with
\* r2 > r gives the records, in the order, that the filter with r2 gives on
\* the table
C11_RatingNarrowing ==
    lastOp.op = "narrow" =>
        /\ lastOp.min > lastOp.first
        /\ error = ""
        /\ search_results = filter_by_minimum_rating(df, lastOp.min).rows

\* C11 witness: the second filter dropped a record that the first one kept
\* and kept another, while a record without rating stayed out
C11_Witness ==
    /\ lastOp.op = "narrow"
    /\ Len(search_results) = 1
    /\ \E i \in 1..Len(df) : df[i].rating = None
    /\ \E i \in 1..Len(df) : /\ df[i].rating # None
                              /\ df[i].rating[1] >= lastOp.first
                              /\ df[i].rating[1] < lastOp.min

-----------------------------------------------------------------------------
(* initialize_session_state over a session *)

\* C12: the first call of initialize_session_state sets the library and the
\* result set empty, current_page to 1 and items_per_page to 10; every later
\* call leaves these four as they are
C12_InitializeOnce ==
    [][/\ (~initialized /\ initialized') =>
              /\ library' = << >>
              /\ search_results' = << >>
              /\ current_page' = 1
              /\ items_per_page' = 10
       /\ (initialized /\ lastOp'.op = "run") =>
              UNCHANGED <<library, search_results, current_page, items_per_page>>
      ]_vars

\* C12 witness: a later call found a saved book, stored results and a page
\* cursor past the first page
C12_Witness ==
    /\ initialized
    /\ lastOp.op = "run"
    /\ library # << >>
    /\ search_results # << >>
    /\ current_page > 1
    /\ items_per_page = 10

-----------------------------------------------------------------------------
(* what a filter action leaves alone *)

FilterOps == {"title", "author", "rating", "pages", "genre", "isbn"}

\* C13: a filter action, whether its filter returns or raises, leaves the
\* book table and the library as they are; of the session state it changes
\* at most the stored result set
C13_FilterFrame ==
    [][(initialized /\ lastOp'.op \in FilterOps) =>
          /\ df' = df
          /\ library' = library
          /\ initialized' = initialized
          /\ current_page' = current_page
          /\ items_per_page' = items_per_page
      ]_vars

\* C13 witness: a filter stored a new, shorter result set while a book was
\* saved and the page cursor stood past the first page
C13_Witness ==
    /\ initialized
    /\ lastOp.op \in FilterOps
    /\ error = ""
    /\ library # << >>
    /\ current_page > 1
    /\ search_results # << >>
    /\ search_results # df

-----------------------------------------------------------------------------
(* the page cursor against the stored result set *)

-----------------------------------------------------------------------------
(* a read book in a session driven through the rendered buttons *)

\* C15: through the rendered buttons no step takes a book from Read to
\* Want to Read; a book that was Read is Want to Read again only after a
\* step that removed it
C15_ReadIsFinal ==
    [][initialized =>
          \A x \in IsbnsOf(df) :
              (Present(x) /\ library[x] = Read) =>
                  \/ x \notin DOMAIN library'
                  \/ library'[x] = Read
      ]_vars

\* C15 witness: a book marked as read is listed among the search results,
\* where it gets the note "Already in library" in place of the button
C15_Witness ==
    /\ initialized
    /\ shown
    /\ \E i \in 1..Len(page_view) :
          /\ page_view[i].isbn \in DOMAIN library
          /\ library[page_view[i].isbn] = Read

=============================================================================
